---- MODULE Spec2Model ----
(***************************************************************************)
(* WikiWatch: the ingest process (src/ingest/ingest_to_files.py) and the   *)
(* Structured Streaming job (src/spark/spark_wiki_file.py).                *)
(*                                                                         *)
(* Event time is counted in whole minutes since the epoch.  The streaming  *)
(* job is executed as micro-batches: a batch filters late rows against the *)
(* watermark of the batch before it, updates the state stores, emits and   *)
(* evicts every group whose window end is at or below the watermark of the *)
(* batch (append mode), and then advances the watermark from the event     *)
(* times it has read.  The four queries of the job share no state and read *)
(* the same files; they are stepped together, so one watermark stands for  *)
(* the watermark of each of them.                                          *)
(***************************************************************************)
EXTENDS Integers, Sequences, FiniteSets, TLC

VARIABLES
    watermark,       \* event-time watermark after the last batch
    batchWatermark,  \* watermark the last batch ran with
    by_proj,         \* state store of by_proj: [end, project] -> edits
    pages,           \* state store of pages: [end, project, page_title] -> edits
    edits_1m,        \* state store of edits_1m: [end, project] -> edits_1m
    edits_10m,       \* state store of edits_10m: [end, project] -> edits_10m
    joinA,           \* rows of edits_1m buffered by the join
    joinB,           \* rows of edits_10m buffered by the join
    pages10,         \* state store of pages10
    cross,           \* state store of cross: [end, page_title] -> [projects, total_edits]
    gold_by_project, \* data/gold/by_project: row -> number of times written
    gold_top_pages,  \* data/gold/top_pages
    gold_spikes,     \* data/gold/spikes_v2
    gold_crosslang,  \* data/gold/crosslang_v2
    bronzeRead,      \* history: rows read from data/bronze so far, row -> count
    lateDropped,     \* history: <<view, group>> a row was dropped from as late
    received,        \* history: <<view, group>> a row was applied to
    lateApplied,     \* history: how rows with ts below the watermark were applied
    contributed,     \* history: the rows that were applied to some accumulator
    nRead,           \* history: number of rows read
    win,             \* SpecWin: a timestamp, a window specification and its windows
    ipc,             \* ingest: where main is: "connect", "stream" or "exit"
    attempt,         \* ingest: main's attempt counter
    backoff,         \* ingest: the last backoff computed, in tenths of a second
    waited,          \* ingest: seconds slept on Retry-After by the last connection
    buf,             \* ingest: connect_and_stream's buffer
    files,           \* ingest: OUT_DIR, second of the file name -> rows
    clock,           \* ingest: the wall clock: the seconds in which main did
                     \* something, numbered in order
    nEvents,         \* ingest: number of events received
    appended,        \* history: the ids of the events appended to buf
    lastResp,        \* history: the response to the last GET, NoResponse if it raised
    branch,          \* history: how main left the last connect_and_stream
    sphase,          \* sink: where the query is in its micro-batch, "down" when killed
    batchId,         \* sink: id of the latest micro-batch
    offsetLog,       \* sink: checkpointLocation/offsets, the batches planned
    commitLog,       \* sink: checkpointLocation/commits, the batches completed
    metadataLog,     \* sink: path/_spark_metadata, batch -> names of its files
    outDir,          \* sink: the parquet files under path, name -> file
    writing,         \* sink: name of the file the running task writes, 0 for none
    nFiles,          \* sink: number of file names used so far
    dpc,             \* dashboard: where read_parquet_dir is
    listed,          \* dashboard: files, the result of glob.glob
    todo,            \* dashboard: the files the loop has still to read
    parts,           \* dashboard: the rows of parts, row -> count
    frame,           \* dashboard: the rows of the frame returned, row -> count
    readableAtGlob   \* history: the files that were complete when glob listed them

sparkVars == <<watermark, batchWatermark, by_proj, pages, edits_1m, edits_10m,
               joinA, joinB, pages10, cross, gold_by_project, gold_top_pages,
               gold_spikes, gold_crosslang, bronzeRead, lateDropped,
               received, lateApplied, contributed, nRead>>

ingestVars == <<ipc, attempt, backoff, waited, buf, files, clock, nEvents, appended,
                lastResp, branch>>

sinkVars == <<sphase, batchId, offsetLog, commitLog, metadataLog, outDir, writing,
              nFiles>>

dashVars == <<dpc, listed, todo, parts, frame, readableAtGlob>>

vars == <<sparkVars, win, ingestVars, sinkVars, dashVars>>

(*************************** values and bounds *****************************)

NULL == "null"          \* a missing field / SQL NULL of a string column

NullTs == -1            \* SQL NULL of the ts column
NoDt == -2              \* meta.dt missing
BadDt == -3             \* meta.dt present but not a timestamp
NoNamespace == -1       \* the record has no namespace field

WatermarkDelay == 20    \* "20 minutes"
TumblingSize == 1       \* "1 minute"
SlidingSize == 10       \* "10 minutes"
SlidingStep == 1        \* "1 minute"
BaselineMinutes == 10   \* F.lit(10.0)
EpsilonInverse == 1000000   \* F.lit(1e-6) is 1 / EpsilonInverse
MinVolume == 5          \* edits_10m >= 5
RatioThreshold == 2     \* ratio >= 2.0
MinProjects == 2        \* n_projects >= 2
MAX_BACKOFF == 120      \* MAX_BACKOFF = 120
NoRetryAfter == -1      \* the response has no Retry-After header
HttpDate == -2          \* a Retry-After header that is a date, not a number

MaxRows == 3            \* rows read in a run
MaxBatchRows == 2       \* rows of one micro-batch
MaxSpikeRows == 11      \* rows read in a run of SpecSpike
MaxCrossRows == 6       \* rows read in a run of SpecCross
BATCH_SIZE == 2          \* os.environ BATCH_SIZE
MaxEvents == 3          \* SpecIngest: events received in a run
MaxAttempt == 7         \* SpecIngest: failures in a row
MaxClock == 7           \* SpecIngest: seconds in which main does something
MaxBatch == 2           \* SpecSink: micro-batches planned
MaxFiles == 3           \* SpecSink: files created under the sink's path
MaxTime == 24           \* SpecWin: largest timestamp
MaxSlide == 3           \* SpecWin: largest slide
MaxFactor == 10         \* SpecWin: largest size / slide

EventTimes == {29, 50, 60}
Projects == {"en", "de"}

Max(a, b) == IF a >= b THEN a ELSE b

SetMax(S) == CHOOSE x \in S : \A y \in S : y <= x

(******************************* ingest filter *****************************)

\* variant: the namespace is not looked at
IngestAdmitsAnyNamespace(obj) ==
    obj.type \in {"edit", "new"}

\* obj.get("type") in ("edit", "new") and obj.get("namespace", 0) == 0
IngestAdmits(obj) ==
    /\ obj.type \in {"edit", "new"}
    /\ (IF obj.namespace = NoNamespace THEN 0 ELSE obj.namespace) = 0

Raw(type, ns, dt, server, wiki, title) ==
    [type |-> type, namespace |-> ns, dt |-> dt,
     server_name |-> server, wiki |-> wiki, title |-> title]

\* the records the change feed can deliver
RawRecords ==
    {Raw("edit", 0, dt, s, NULL, "X") : dt \in EventTimes, s \in Projects \cup {NULL}}
    \cup {Raw("edit", 0, 29, s, NULL, "Y") : s \in Projects}
    \cup {Raw("edit", 0, NoDt, "en", NULL, "X"),
          Raw("edit", 0, BadDt, "en", NULL, "X"),
          Raw("edit", NoNamespace, 29, "en", NULL, "X"),
          Raw("edit", 1, 29, "en", NULL, "X"),
          Raw("log", 0, 29, "en", NULL, "X"),
          Raw("new", 0, 29, NULL, "de", "X"),
          Raw("edit", 0, 29, "en", NULL, NULL)}

\* the rows of the files under data/bronze: what the ingest process wrote
BronzeRows == {obj \in RawRecords : IngestAdmits(obj)}

(******************************* source stream *****************************)

\* F.to_timestamp: NULL for a missing or malformed string
ToTimestamp(dt) == IF dt >= 0 THEN dt ELSE NullTs

\* F.coalesce
Coalesce(a, b) == IF a # NULL THEN a ELSE b

\* src: the derived columns of one row
Src(obj) ==
    [ts |-> ToTimestamp(obj.dt),
     project |-> Coalesce(obj.server_name, obj.wiki),
     page_title |-> obj.title]

\* variant: the window that starts at the timestamp is left out
WindowsForOpenStart(t, size, slide) ==
    IF t = NullTs THEN {}
    ELSE LET maxNumOverlapping == (size + slide - 1) \div slide
             lastStart == t - (t % slide)
             cand == {[start |-> lastStart - i * slide,
                       end |-> lastStart - i * slide + size] :
                          i \in 0..(maxNumOverlapping - 1)}
         IN  {w \in cand : w.start < t /\ t < w.end}

\* variant: every candidate window is kept, one more than overlap the timestamp
WindowsForUnfiltered(t, size, slide) ==
    IF t = NullTs THEN {}
    ELSE LET maxNumOverlapping == (size + slide - 1) \div slide
             lastStart == t - (t % slide)
         IN  {[start |-> lastStart - i * slide,
               end |-> lastStart - i * slide + size] :
                  i \in 0..maxNumOverlapping}

\* F.window(ts, size, slide): the windows of a timestamp, none for NULL
WindowsFor(t, size, slide) ==
    IF t = NullTs THEN {}
    ELSE LET maxNumOverlapping == (size + slide - 1) \div slide
             lastStart == t - (t % slide)
             cand == {[start |-> lastStart - i * slide,
                       end |-> lastStart - i * slide + size] :
                          i \in 0..(maxNumOverlapping - 1)}
         IN  {w \in cand : w.start <= t /\ t < w.end}

(**************************** stateful operators ***************************)

\* the window of a view that ends at a time
Window(end, size) == [start |-> end - size, end |-> end]

\* the rows of a batch, one copy per window of the row, tagged with their
\* group: <<row index, <<window end, grouping columns>>>>
KeyedByProject(rows, size, slide) ==
    UNION {{<<i, <<w.end, Src(rows[i]).project>>>> :
              w \in WindowsFor(Src(rows[i]).ts, size, slide)} :
           i \in 1..Len(rows)}

KeyedByPage(rows, size, slide) ==
    UNION {{<<i, <<w.end, Src(rows[i]).project, Src(rows[i]).page_title>>>> :
              w \in WindowsFor(Src(rows[i]).ts, size, slide)} :
           i \in 1..Len(rows)}

\* variant: a window closes only after the watermark has passed its end
WatermarkPredicateStrict(end, wm) == end < wm

\* the watermark predicate of a windowed group: window.end <= watermark
WatermarkPredicate(end, wm) == end <= wm

\* rows that pass the late-row filter of a stateful operator
OnTime(keyed, lateW) == {p \in keyed : ~WatermarkPredicate(p[2][1], lateW)}

\* variant: two rows of a batch in the same group count once
CountIntoDistinct(store, keyed) ==
    LET touched == {p[2] : p \in keyed}
    IN  [k \in DOMAIN store \cup touched |->
            IF k \in touched
            THEN (IF k \in DOMAIN store THEN store[k] ELSE 0) + 1
            ELSE store[k]]

\* count(): a group is created by its first row and incremented by each row
CountInto(store, keyed) ==
    LET touched == {p[2] : p \in keyed}
        idx == {p[1] : p \in keyed}
    IN  [k \in touched |->
            (IF k \in DOMAIN store THEN store[k] ELSE 0)
            + Cardinality({i \in idx : <<i, k>> \in keyed})] @@ store

\* append mode: the groups a batch emits and removes from the state store
Closed(store, evictW) ==
    {k \in DOMAIN store : WatermarkPredicate(k[1], evictW)}

\* variant: emitted groups stay in the state store
RetainAll(store, keys) == store

Retain(store, keys) == IF keys = DOMAIN store THEN store ELSE [k \in keys |-> store[k]]

\* one windowed count() in one batch
StreamingCount(store, keyed, lateW, evictW) ==
    LET upd == CountInto(store, OnTime(keyed, lateW))
        closed == Closed(upd, evictW)
    IN  [state |-> Retain(upd, DOMAIN upd \ closed),
         out |-> {[key |-> k, count |-> upd[k]] : k \in closed}]

\* the parquet sink appends the rows of the batch
AppendRows(gold, rows) ==
    [r \in DOMAIN gold \cup rows |->
        (IF r \in DOMAIN gold THEN gold[r] ELSE 0) + (IF r \in rows THEN 1 ELSE 0)]

(********************************* by_proj *********************************)

ByProjRow(o) ==
    [window |-> Window(o.key[1], TumblingSize), project |-> o.key[2], edits |-> o.count]

(********************************** pages **********************************)

PagesRow(o) ==
    [window |-> Window(o.key[1], SlidingSize), project |-> o.key[2],
     page_title |-> o.key[3], edits |-> o.count]

(********************************* spikes **********************************)

Edits1mRow(o) ==
    [w1 |-> Window(o.key[1], TumblingSize), project |-> o.key[2], edits_1m |-> o.count]

Edits10mRow(o) ==
    [w10 |-> Window(o.key[1], SlidingSize), project |-> o.key[2], edits_10m |-> o.count]

\* a.project == b.project and a.w1.end == b.w10.end; NULL equals nothing
JoinOn(a, b) ==
    /\ a.project # NULL
    /\ b.project # NULL
    /\ a.project = b.project
    /\ a.w1.end = b.w10.end

\* edits_1m / greatest(edits_10m / 10.0, 1e-6), as the fraction num / den
Ratio(e1, e10) ==
    [num |-> e1 * BaselineMinutes * EpsilonInverse,
     den |-> Max(e10 * EpsilonInverse, BaselineMinutes)]

RatioAtLeast(ratio, n) == ratio.num >= n * ratio.den

RatioEquals(ratio, n) == ratio.num = n * ratio.den

SpikeSelect(a, b) ==
    [window |-> a.w1, project |-> a.project, edits_1m |-> a.edits_1m,
     edits_10m |-> b.edits_10m, ratio |-> Ratio(a.edits_1m, b.edits_10m)]

\* variant: the volume threshold is exclusive
SpikeWhereStrict(row) ==
    /\ row.edits_10m > MinVolume
    /\ RatioAtLeast(row.ratio, RatioThreshold)

\* .where((edits_10m >= 5) & (ratio >= 2.0))
SpikeWhere(row) ==
    /\ row.edits_10m >= MinVolume
    /\ RatioAtLeast(row.ratio, RatioThreshold)

\* inner stream-stream join: new rows of a side meet all rows of the other
JoinedPairs(oldA, newA, oldB, newB) ==
    {p \in (newA \X (oldB \cup newB)) \cup (oldA \X newB) : JoinOn(p[1], p[2])}

SpikeRows(oldA, newA, oldB, newB) ==
    {row \in {SpikeSelect(p[1], p[2]) : p \in JoinedPairs(oldA, newA, oldB, newB)} :
        SpikeWhere(row)}

(********************************** cross **********************************)

Pages10Row(o) ==
    [window |-> Window(o.key[1], SlidingSize), project |-> o.key[2],
     page_title |-> o.key[3], count |-> o.count]

KeyCross(row) == <<row.window.end, row.page_title>>

RECURSIVE SumCount(_)
SumCount(rows) ==
    IF rows = {} THEN 0
    ELSE LET r == CHOOSE r \in rows : TRUE
         IN  r.count + SumCount(rows \ {r})

\* F.collect_set: the distinct non-NULL values
CollectSet(values) == values \ {NULL}

\* groupBy(window, page_title).agg(collect_set(project), sum(count))
CrossInto(store, rows) ==
    LET keys == DOMAIN store \cup {KeyCross(r) : r \in rows}
        group(k) == {r \in rows : KeyCross(r) = k}
        old(k) == IF k \in DOMAIN store THEN store[k]
                  ELSE [projects |-> {}, total_edits |-> 0]
    IN  [k \in keys |->
            [projects |-> old(k).projects \cup CollectSet({r.project : r \in group(k)}),
             total_edits |-> old(k).total_edits + SumCount(group(k))]]

CrossRow(k, acc) ==
    [window |-> Window(k[1], SlidingSize), page_title |-> k[2], projects |-> acc.projects,
     total_edits |-> acc.total_edits, n_projects |-> Cardinality(acc.projects)]

\* variant: more than two projects are asked for
CrossFilterStrict(row) == row.n_projects > MinProjects

\* .filter(n_projects >= 2)
CrossFilter(row) == row.n_projects >= MinProjects

StreamingCross(store, rows, lateW, evictW) ==
    LET upd == CrossInto(store, {r \in rows : ~WatermarkPredicate(r.window.end, lateW)})
        closed == Closed(upd, evictW)
    IN  [state |-> Retain(upd, DOMAIN upd \ closed),
         out |-> {CrossRow(k, upd[k]) : k \in closed}]

(******************************** watermark ********************************)

\* variant: the watermark follows the newest batch
AdvanceWatermarkLastBatch(wm, rows) ==
    LET seen == {Src(rows[i]).ts : i \in 1..Len(rows)} \ {NullTs}
    IN  IF seen = {} THEN wm ELSE SetMax(seen) - WatermarkDelay

\* withWatermark("ts", "20 minutes"): max event time read, less the delay;
\* the tracker only ever moves the watermark forward
AdvanceWatermark(wm, rows) ==
    LET seen == {Src(rows[i]).ts : i \in 1..Len(rows)} \ {NullTs}
    IN  IF seen = {} THEN wm ELSE Max(wm, SetMax(seen) - WatermarkDelay)

NoWindows == [t |-> 0, size |-> 1, slide |-> 1, assigned |-> FALSE, windows |-> {}]

(********************************* ingest **********************************)

\* the events the SSE client can yield: event type, data, and the object the
\* data parses to when it is JSON
NoObj == Raw(NULL, NoNamespace, NoDt, NULL, NULL, NULL)

SseEvents ==
    {[event |-> "message", data |-> "json", obj |-> o] :
        o \in {Raw("edit", 0, 29, "en", NULL, "X"),
               Raw("new", NoNamespace, 29, "en", NULL, "X"),
               Raw("edit", 1, 29, "en", NULL, "X"),
               Raw("log", 0, 29, "en", NULL, "X")}}
    \cup {[event |-> "message", data |-> "garbage", obj |-> NoObj],
          [event |-> "message", data |-> "", obj |-> NoObj],
          [event |-> "ping", data |-> "json", obj |-> NoObj]}

\* the responses to the GET: status code and Retry-After in seconds
Responses ==
    {[status |-> 200, retry_after |-> NoRetryAfter],
     [status |-> 500, retry_after |-> NoRetryAfter]}
    \cup {[status |-> 429, retry_after |-> ra] : ra \in {NoRetryAfter, HttpDate, 3, 200}}

\* no response: session.get raised, or no GET was made yet
NoResponse == [status |-> 0, retry_after |-> NoRetryAfter]

Min(a, b) == IF a <= b THEN a ELSE b

\* write_batch: nothing for an empty buffer, else the file named after the
\* current second is opened for writing and receives the rows
WriteBatch(dir, rows, now) ==
    IF rows = << >> THEN dir
    ELSE [p \in DOMAIN dir \cup {now} |-> IF p = now THEN rows ELSE dir[p]]

\* variant: the backoff is not capped
BackoffUncapped(n, jitter) == 10 * (2 ^ n) + jitter

\* min(MAX_BACKOFF, 2 ** attempt) + random.uniform(0, 1.0), in tenths
Backoff(n, jitter) == 10 * Min(MAX_BACKOFF, 2 ^ n) + jitter

Jitters == {0, 5, 10}

\* time.sleep(seconds): main does nothing until a later second, unless the
\* time slept is zero
AfterSleep(now, tenths) == IF tenths > 0 THEN now + 1 ELSE now

\* an except branch of main other than KeyboardInterrupt: count the attempt,
\* compute the backoff, sleep, and go round the loop. slept is the time
\* connect_and_stream slept before it raised; ra is the Retry-After the
\* branch reads, NoRetryAfter in the branches that read none; except names
\* the branch
Retry(slept, ra, except) ==
    /\ attempt < MaxAttempt
    /\ clock < MaxClock
    /\ attempt' = attempt + 1
    /\ \E jitter \in Jitters :
          LET computed == Backoff(attempt + 1, jitter)
              final == IF ra >= 0 THEN Max(computed, 10 * ra) ELSE computed
          IN  /\ backoff' = final
              /\ clock' = AfterSleep(AfterSleep(clock, 10 * slept), final)
    /\ waited' = slept
    /\ buf' = << >>
    /\ ipc' = "connect"
    /\ branch' = except

\* session.get raised ConnectionError or Timeout
ConnectError ==
    /\ ipc = "connect"
    /\ Retry(0, NoRetryAfter, "network")
    /\ lastResp' = NoResponse
    /\ UNCHANGED <<files, nEvents, appended, sparkVars, win, sinkVars, dashVars>>

\* connect_and_stream up to the SSE client: the response to the GET
Connect(resp) ==
    /\ ipc = "connect"
    /\ IF resp.status = 429 /\ resp.retry_after = NoRetryAfter
       THEN \* raise HTTPError("429", response=resp): main's 429 branch, which
            \* reads the Retry-After of the same response
            Retry(0, resp.retry_after, "429")
       ELSE IF resp.status = 429 /\ resp.retry_after = HttpDate
       THEN \* int(ra) raises ValueError: main's except Exception branch
            Retry(0, NoRetryAfter, "exception")
       ELSE IF resp.status = 429
       THEN \* time.sleep(int(ra)) returns None and `raise None` is a TypeError:
            \* main's except Exception branch
            Retry(resp.retry_after, NoRetryAfter, "exception")
       ELSE IF resp.status # 200
       THEN \* raise HTTPError: the else of main's 429 test
            Retry(0, NoRetryAfter, "http")
       ELSE /\ ipc' = "stream"
            /\ buf' = << >>
            /\ branch' = "none"
            /\ UNCHANGED <<attempt, backoff, waited, clock>>
    /\ lastResp' = resp
    /\ UNCHANGED <<files, nEvents, appended, sparkVars, win, sinkVars, dashVars>>

\* one turn of `for ev in client.events()`
StreamEvent(ev) ==
    /\ ipc = "stream"
    /\ nEvents < MaxEvents
    /\ nEvents' = nEvents + 1
    /\ IF ev.event # "message" \/ ev.data = "" \/ ev.data # "json"
          \/ ~IngestAdmits(ev.obj)
       THEN UNCHANGED <<buf, files, appended>>
       ELSE LET row == [id |-> nEvents + 1, obj |-> ev.obj]
                grown == Append(buf, row)
            IN  /\ appended' = appended \cup {row.id}
                /\ IF Len(grown) >= BATCH_SIZE
                   THEN /\ files' = WriteBatch(files, grown, clock)
                        /\ buf' = << >>
                   ELSE /\ buf' = grown
                        /\ UNCHANGED files
    /\ UNCHANGED <<ipc, attempt, backoff, waited, clock, lastResp, branch, sparkVars,
                   win, sinkVars, dashVars>>

\* variant: a normal end of the stream leaves attempt as it is
StreamEndKeepsAttempt ==
    /\ ipc = "stream"
    /\ files' = WriteBatch(files, buf, clock)
    /\ buf' = << >>
    /\ ipc' = "connect"
    /\ branch' = "returned"
    /\ UNCHANGED <<attempt, backoff, waited, clock, nEvents, appended, lastResp,
                   sparkVars, win, sinkVars, dashVars>>

\* the event stream ended: flush leftovers, return, attempt = 0
StreamEnd ==
    /\ ipc = "stream"
    /\ files' = WriteBatch(files, buf, clock)
    /\ buf' = << >>
    /\ attempt' = 0
    /\ ipc' = "connect"
    /\ branch' = "returned"
    /\ UNCHANGED <<backoff, waited, clock, nEvents, appended, lastResp, sparkVars, win,
                   sinkVars, dashVars>>

\* client.events() raised: a ConnectionError or Timeout, or an error of
\* another class; the buffer is lost with the frame of connect_and_stream
StreamError ==
    /\ ipc = "stream"
    /\ \E except \in {"network", "exception"} : Retry(0, NoRetryAfter, except)
    /\ UNCHANGED <<files, nEvents, appended, lastResp, sparkVars, win, sinkVars, dashVars>>

\* KeyboardInterrupt: sys.exit(0)
Interrupt ==
    /\ ipc # "exit"
    /\ ipc' = "exit"
    /\ buf' = << >>
    /\ branch' = "interrupt"
    /\ UNCHANGED <<lastResp, attempt, backoff, waited, files, clock, nEvents, appended,
                   sparkVars, win, sinkVars, dashVars>>

\* a second passes while the client waits for the next event
Tick ==
    /\ ipc = "stream"
    /\ clock < MaxClock
    /\ clock' = clock + 1
    /\ UNCHANGED <<ipc, attempt, backoff, waited, buf, files, nEvents, appended, lastResp,
                   branch,
                   sparkVars, win, sinkVars, dashVars>>

InitIngest ==
    /\ ipc = "connect"
    /\ attempt = 0
    /\ backoff = 0
    /\ waited = 0
    /\ buf = << >>
    /\ files = [p \in {} |-> << >>]
    /\ clock = 0
    /\ nEvents = 0
    /\ appended = {}
    /\ lastResp = NoResponse
    /\ branch = "none"

(******************************** micro-batch ******************************)

EmptyStore == [k \in {} |-> 0]

\* history of the late-row filter of a view
DroppedBy(view, keyed, lateW) ==
    {<<view, p[2]>> : p \in keyed \ OnTime(keyed, lateW)}

ReceivedBy(view, keyed, lateW) ==
    {<<view, p[2]>> : p \in OnTime(keyed, lateW)}

AppliedBelow(view, rows, keyed, lateW, wm) ==
    {[view |-> view,
      belowLast |-> Src(rows[p[1]]).ts < lateW,
      closed |-> p[2][1] <= lateW] :
        p \in {q \in OnTime(keyed, lateW) : Src(rows[q[1]]).ts < wm}}

CountRead(read, rows) ==
    LET objs == {rows[i] : i \in 1..Len(rows)}
    IN  [o \in DOMAIN read \cup objs |->
            (IF o \in DOMAIN read THEN read[o] ELSE 0)
            + Cardinality({i \in 1..Len(rows) : rows[i] = o})]

\* one micro-batch of the four queries over the rows of the new files
RunBatch(rows) ==
    LET lateW == batchWatermark
        evictW == watermark
        k1 == KeyedByProject(rows, TumblingSize, TumblingSize)
        k10 == KeyedByProject(rows, SlidingSize, SlidingStep)
        kp == KeyedByPage(rows, SlidingSize, SlidingStep)
        q1 == StreamingCount(by_proj, k1, lateW, evictW)
        q2 == StreamingCount(pages, kp, lateW, evictW)
        a == StreamingCount(edits_1m, k1, lateW, evictW)
        b == StreamingCount(edits_10m, k10, lateW, evictW)
        newA == {Edits1mRow(o) : o \in a.out}
        newB == {Edits10mRow(o) : o \in b.out}
        p10 == StreamingCount(pages10, kp, lateW, evictW)
        c == StreamingCross(cross, {Pages10Row(o) : o \in p10.out}, lateW, evictW)
    IN  /\ by_proj' = q1.state
        /\ gold_by_project' = AppendRows(gold_by_project, {ByProjRow(o) : o \in q1.out})
        /\ pages' = q2.state
        /\ gold_top_pages' = AppendRows(gold_top_pages, {PagesRow(o) : o \in q2.out})
        /\ edits_1m' = a.state
        /\ edits_10m' = b.state
        /\ joinA' = joinA \cup newA
        /\ joinB' = joinB \cup newB
        /\ gold_spikes' = AppendRows(gold_spikes, SpikeRows(joinA, newA, joinB, newB))
        /\ pages10' = p10.state
        /\ cross' = c.state
        /\ gold_crosslang' = AppendRows(gold_crosslang, {r \in c.out : CrossFilter(r)})
        /\ batchWatermark' = evictW
        /\ watermark' = AdvanceWatermark(watermark, rows)
        /\ bronzeRead' = CountRead(bronzeRead, rows)
        /\ lateDropped' = lateDropped \cup DroppedBy("by_proj", k1, lateW)
                                      \cup DroppedBy("pages", kp, lateW)
        /\ received' = received \cup ReceivedBy("by_proj", k1, lateW)
                                \cup ReceivedBy("pages", kp, lateW)
        /\ lateApplied' = lateApplied \cup AppliedBelow("by_proj", rows, k1, lateW, evictW)
                                      \cup AppliedBelow("pages", rows, kp, lateW, evictW)
        /\ contributed' = contributed \cup {rows[p[1]] : p \in OnTime(k1, lateW) \cup OnTime(kp, lateW)}
        /\ nRead' = nRead + Len(rows)
        /\ UNCHANGED <<win, ingestVars, sinkVars, dashVars>>

\* the file source found new files
DataBatch(rows) ==
    /\ Len(rows) > 0
    /\ RunBatch(rows)

\* no new files, but the watermark moved past the one the last batch ran with
NoDataBatch ==
    /\ watermark > batchWatermark
    /\ RunBatch(<< >>)

RECURSIVE Enumerate(_)
Enumerate(S) ==
    IF S = {} THEN << >>
    ELSE LET x == CHOOSE x \in S : TRUE
         IN  <<x>> \o Enumerate(S \ {x})

\* the batches of at most n rows of U; the rows of a batch have no order, so
\* each multiset of rows is listed once
Batches(U, n) ==
    LET e == Enumerate(U)
    IN  UNION {{[i \in 1..k |-> e[f[i]]] :
                  f \in {g \in [1..k -> 1..Len(e)] :
                            \A i \in 1..(k - 1) : g[i] <= g[i + 1]}} :
               k \in 1..n}

(******************************** file sink ********************************)

\* One query and its parquet sink.  A micro-batch is planned in the offset
\* log of the checkpoint, its rows are written by a task as one file with a
\* fresh name, the batch is entered in the sink's _spark_metadata log, and the
\* batch is marked complete in the commit log of the checkpoint.

\* the records micro-batch b hands to the sink: those of the window that ends
\* at b.  State and offsets are restored from the checkpoint, so a batch that
\* is run again hands over the same records
BatchRows(b) == {b}

File(b, done, rows) == [batch |-> b, complete |-> done, rows |-> rows]

Complete(dir) == {f \in DOMAIN dir : dir[f].complete}

\* the engine logs the offsets of the next micro-batch
PlanBatch ==
    /\ sphase = "idle"
    /\ batchId < MaxBatch
    /\ batchId' = batchId + 1
    /\ offsetLog' = offsetLog \cup {batchId + 1}
    /\ sphase' = "planned"
    /\ UNCHANGED <<commitLog, metadataLog, outDir, writing, nFiles>>
    /\ UNCHANGED <<sparkVars, win, ingestVars, dashVars>>

\* the sink takes the batch: a batch the _spark_metadata log already holds is
\* skipped, else a task opens a new file under path and starts to write the
\* rows; the file has no footer until it is closed
AddBatch ==
    /\ sphase = "planned"
    /\ IF batchId \in DOMAIN metadataLog
       THEN /\ sphase' = "sunk"
            /\ UNCHANGED <<outDir, writing, nFiles>>
       ELSE /\ nFiles < MaxFiles
            /\ nFiles' = nFiles + 1
            /\ writing' = nFiles + 1
            /\ outDir' = outDir @@ ((nFiles + 1) :> File(batchId, FALSE, BatchRows(batchId)))
            /\ sphase' = "writing"
    /\ UNCHANGED <<batchId, offsetLog, commitLog, metadataLog>>
    /\ UNCHANGED <<sparkVars, win, ingestVars, dashVars>>

\* the task writes the rows and the footer and closes the file
FinishFile ==
    /\ sphase = "writing"
    /\ outDir' = [outDir EXCEPT ![writing] = File(batchId, TRUE, BatchRows(batchId))]
    /\ sphase' = "written"
    /\ UNCHANGED <<batchId, offsetLog, commitLog, metadataLog, writing, nFiles>>
    /\ UNCHANGED <<sparkVars, win, ingestVars, dashVars>>

\* the task fails: its file is deleted if the executor lives to do it, and
\* the task is tried again
TaskFails ==
    /\ sphase = "writing"
    /\ \/ outDir' = [f \in DOMAIN outDir \ {writing} |-> outDir[f]]
       \/ outDir' = outDir
    /\ writing' = 0
    /\ sphase' = "planned"
    /\ UNCHANGED <<batchId, offsetLog, commitLog, metadataLog, nFiles>>
    /\ UNCHANGED <<sparkVars, win, ingestVars, dashVars>>

\* the job commits: the batch and its file enter the _spark_metadata log
SinkCommit ==
    /\ sphase = "written"
    /\ metadataLog' = metadataLog @@ (batchId :> {writing})
    /\ writing' = 0
    /\ sphase' = "sunk"
    /\ UNCHANGED <<batchId, offsetLog, commitLog, outDir, nFiles>>
    /\ UNCHANGED <<sparkVars, win, ingestVars, dashVars>>

\* the engine marks the batch complete in the checkpoint
BatchCommit ==
    /\ sphase = "sunk"
    /\ commitLog' = commitLog \cup {batchId}
    /\ sphase' = "idle"
    /\ UNCHANGED <<batchId, offsetLog, metadataLog, outDir, writing, nFiles>>
    /\ UNCHANGED <<sparkVars, win, ingestVars, dashVars>>

\* the job is killed: what is on disk stays as it is
Crash ==
    /\ sphase # "down"
    /\ sphase' = "down"
    /\ writing' = 0
    /\ UNCHANGED <<batchId, offsetLog, commitLog, metadataLog, outDir, nFiles>>
    /\ UNCHANGED <<sparkVars, win, ingestVars, dashVars>>

\* the job is started again on the same checkpoint: the last planned batch is
\* run again unless the commit log holds it
Restart ==
    /\ sphase = "down"
    /\ sphase' = IF offsetLog # {} /\ SetMax(offsetLog) \notin commitLog
                 THEN "planned" ELSE "idle"
    /\ UNCHANGED <<batchId, offsetLog, commitLog, metadataLog, outDir, writing, nFiles>>
    /\ UNCHANGED <<sparkVars, win, ingestVars, dashVars>>

InitSink ==
    /\ sphase = "idle"
    /\ batchId = 0
    /\ offsetLog = {}
    /\ commitLog = {}
    /\ metadataLog = [b \in {} |-> {}]
    /\ outDir = [f \in {} |-> File(0, FALSE, {})]
    /\ writing = 0
    /\ nFiles = 0

(******************************** dashboard ********************************)

EmptyFrame == [r \in {} |-> 0]

\* variant: a file without its footer reads as the rows written so far
ReadParquetUnfinished(dir, f) ==
    IF f \in DOMAIN dir THEN [ok |-> TRUE, rows |-> dir[f].rows]
    ELSE [ok |-> FALSE, rows |-> {}]

\* pd.read_parquet(f): raises for a file that is gone or has no footer yet
ReadParquet(dir, f) ==
    IF f \in DOMAIN dir /\ dir[f].complete THEN [ok |-> TRUE, rows |-> dir[f].rows]
    ELSE [ok |-> FALSE, rows |-> {}]

\* pd.concat of the frames of a set of files
RECURSIVE ConcatFiles(_, _)
ConcatFiles(dir, fs) ==
    IF fs = {} THEN EmptyFrame
    ELSE LET f == CHOOSE f \in fs : TRUE
         IN  AppendRows(ConcatFiles(dir, fs \ {f}), ReadParquet(dir, f).rows)

\* pd.read_parquet(path): every file of the directory, raises if one of them
\* cannot be read or there is none
ReadParquetDirectory(dir) ==
    IF DOMAIN dir # {} /\ \A f \in DOMAIN dir : ReadParquet(dir, f).ok
    THEN [ok |-> TRUE, frame |-> ConcatFiles(dir, DOMAIN dir)]
    ELSE [ok |-> FALSE, frame |-> EmptyFrame]

\* read_parquet_dir up to the first return: glob, and the empty frame if it
\* finds nothing
Glob ==
    /\ dpc \in {"idle", "returned"}
    /\ listed' = DOMAIN outDir
    /\ readableAtGlob' = Complete(outDir)
    /\ IF DOMAIN outDir = {}
       THEN /\ frame' = EmptyFrame
            /\ dpc' = "returned"
       ELSE /\ frame' = frame
            /\ dpc' = "fast"
    /\ UNCHANGED <<todo, parts>>
    /\ UNCHANGED <<sparkVars, win, ingestVars, sinkVars>>

\* the fast path: the directory read as a whole, or the fall back to the loop
FastPath ==
    /\ dpc = "fast"
    /\ LET whole == ReadParquetDirectory(outDir)
       IN  IF whole.ok
           THEN /\ frame' = whole.frame
                /\ dpc' = "returned"
                /\ UNCHANGED <<todo, parts>>
           ELSE /\ todo' = listed
                /\ parts' = EmptyFrame
                /\ dpc' = "perfile"
                /\ UNCHANGED frame
    /\ UNCHANGED <<listed, readableAtGlob>>
    /\ UNCHANGED <<sparkVars, win, ingestVars, sinkVars>>

\* one turn of `for f in files`: the file is appended to parts, or skipped if
\* reading it raises
ReadFile(f) ==
    /\ dpc = "perfile"
    /\ f \in todo
    /\ todo' = todo \ {f}
    /\ LET part == ReadParquet(outDir, f)
       IN  parts' = IF part.ok THEN AppendRows(parts, part.rows) ELSE parts
    /\ UNCHANGED <<dpc, listed, frame, readableAtGlob>>
    /\ UNCHANGED <<sparkVars, win, ingestVars, sinkVars>>

\* after the loop: pd.concat(parts), or the empty frame if parts is empty
Concat ==
    /\ dpc = "perfile"
    /\ todo = {}
    /\ frame' = parts
    /\ dpc' = "returned"
    /\ UNCHANGED <<listed, todo, parts, readableAtGlob>>
    /\ UNCHANGED <<sparkVars, win, ingestVars, sinkVars>>

InitDash ==
    /\ dpc = "idle"
    /\ listed = {}
    /\ todo = {}
    /\ parts = EmptyFrame
    /\ frame = EmptyFrame
    /\ readableAtGlob = {}

BronzeBatches == Batches(BronzeRows, MaxBatchRows)

InitSpark ==
    /\ watermark = 0
    /\ batchWatermark = 0
    /\ by_proj = EmptyStore
    /\ pages = EmptyStore
    /\ edits_1m = EmptyStore
    /\ edits_10m = EmptyStore
    /\ joinA = {}
    /\ joinB = {}
    /\ pages10 = EmptyStore
    /\ cross = EmptyStore
    /\ gold_by_project = EmptyStore
    /\ gold_top_pages = EmptyStore
    /\ gold_spikes = EmptyStore
    /\ gold_crosslang = EmptyStore
    /\ bronzeRead = EmptyStore
    /\ lateDropped = {}
    /\ received = {}
    /\ lateApplied = {}
    /\ contributed = {}
    /\ nRead = 0

Init ==
    /\ InitSpark
    /\ InitIngest
    /\ InitSink
    /\ InitDash
    /\ win = NoWindows

Next ==
    \/ \E rows \in BronzeBatches :
          /\ nRead + Len(rows) <= MaxRows
          /\ DataBatch(rows)
    \/ NoDataBatch

Spec == Init /\ [][Next]_vars

\* F.window applied to one timestamp under one window specification
InitWin ==
    /\ InitSpark
    /\ InitIngest
    /\ InitSink
    /\ InitDash
    /\ win \in {[t |-> t, size |-> k * slide, slide |-> slide,
                 assigned |-> FALSE, windows |-> {}] :
                    t \in 0..MaxTime, slide \in 1..MaxSlide, k \in 1..MaxFactor}

AssignWindows ==
    /\ ~win.assigned
    /\ win' = [win EXCEPT !.assigned = TRUE,
                          !.windows = WindowsFor(win.t, win.size, win.slide)]
    /\ UNCHANGED <<sparkVars, ingestVars, sinkVars, dashVars>>

NextWin == AssignWindows

SpecWin == InitWin /\ [][NextWin]_vars

\* the same job over a burst of one project: ten edits of "en" in ten
\* minutes, five of them in the last minute, and edits with no project
SpikeBronze ==
    {Raw("edit", 0, 20, "en", NULL, "X"),
     Raw("edit", 0, 29, "en", NULL, "X"),
     Raw("edit", 0, 50, "en", NULL, "X"),
     Raw("edit", 0, 29, NULL, NULL, "X")}

SpikeBatches == Batches(SpikeBronze, MaxBatchRows)

NextSpike ==
    \/ \E rows \in SpikeBatches :
          /\ nRead + Len(rows) <= MaxSpikeRows
          /\ DataBatch(rows)
    \/ NoDataBatch

SpecSpike == Init /\ [][NextSpike]_vars

\* the same job over one page edited under several projects in one minute
CrossBronze ==
    {Raw("edit", 0, 29, "en", NULL, "X"),
     Raw("edit", 0, 29, "de", NULL, "X"),
     Raw("edit", 0, 29, NULL, NULL, "X"),
     Raw("edit", 0, 29, "de", NULL, "Y"),
     Raw("edit", 0, 50, "en", NULL, "X")}

CrossBatches == Batches(CrossBronze, MaxBatchRows)

NextCross ==
    \/ \E rows \in CrossBatches :
          /\ nRead + Len(rows) <= MaxCrossRows
          /\ DataBatch(rows)
    \/ NoDataBatch

SpecCross == Init /\ [][NextCross]_vars

NextIngest ==
    \/ ConnectError
    \/ \E resp \in Responses : Connect(resp)
    \/ \E ev \in SseEvents : StreamEvent(ev)
    \/ StreamEnd
    \/ StreamError
    \/ Interrupt
    \/ Tick

SpecIngest == Init /\ [][NextIngest]_vars

NextSink ==
    \/ PlanBatch
    \/ AddBatch
    \/ FinishFile
    \/ TaskFails
    \/ SinkCommit
    \/ BatchCommit
    \/ Crash
    \/ Restart
    \/ Glob
    \/ FastPath
    \/ \E f \in 1..MaxFiles : ReadFile(f)
    \/ Concat

SpecSink == Init /\ [][NextSink]_vars

(********************************* claims **********************************)

RECURSIVE BagSum(_, _)
BagSum(bag, S) ==
    IF S = {} THEN 0
    ELSE LET x == CHOOSE x \in S : TRUE
         IN  bag[x] + BagSum(bag, S \ {x})

\* rows read so far whose timestamp lies in a window
ReadInWindow(w) ==
    {o \in DOMAIN bronzeRead : w.start <= Src(o).ts /\ Src(o).ts < w.end}

SeenTimes == {Src(o).ts : o \in DOMAIN bronzeRead} \ {NullTs}

StoreOf(view) == IF view = "by_proj" THEN by_proj ELSE pages

GoldOf(view) == IF view = "by_proj" THEN gold_by_project ELSE gold_top_pages

RowKey(view, r) ==
    IF view = "by_proj" THEN <<r.window.end, r.project>>
    ELSE <<r.window.end, r.project, r.page_title>>

EmittedRows(view, k) == {r \in DOMAIN GoldOf(view) : RowKey(view, r) = k}

RECURSIVE SumEdits(_)
SumEdits(rows) ==
    IF rows = {} THEN 0
    ELSE LET r == CHOOSE r \in rows : TRUE
         IN  r.edits + SumEdits(rows \ {r})

SpikeRecords(a) ==
    {s \in DOMAIN gold_spikes : s.window = a.w1 /\ s.project = a.project}

SamePair(a, b) == a.project = b.project /\ a.w1.end = b.w10.end

\* edits_10m >= 5 and edits_1m / (edits_10m / 10) >= 2
Burst(a, b) ==
    /\ b.edits_10m >= MinVolume
    /\ BaselineMinutes * a.edits_1m >= RatioThreshold * b.edits_10m

\* every spike record comes from a pair of closed aggregates of one project
\* and one window end, and its ratio is 10 * edits_1m / edits_10m
SpikesFromPairs ==
    \A s \in DOMAIN gold_spikes :
        /\ gold_spikes[s] = 1
        /\ \E a \in joinA : \E b \in joinB :
              /\ SamePair(a, b)
              /\ s.window = a.w1
              /\ s.project = a.project
              /\ s.edits_1m = a.edits_1m
              /\ s.edits_10m = b.edits_10m
        /\ s.ratio.num * s.edits_10m = s.ratio.den * BaselineMinutes * s.edits_1m
        /\ (s.edits_10m = 10 /\ s.edits_1m = 5) => RatioEquals(s.ratio, 5)

\* C1 as stated: a pair of closed aggregates of edits_1m and edits_10m with
\* the same window end and the same project has a spike record if and only
\* if edits_10m >= 5 and ratio >= 2.0
C1_SpikeIff ==
    /\ \A a \in joinA : \A b \in joinB :
          SamePair(a, b) => (SpikeRecords(a) # {} <=> Burst(a, b))
    /\ SpikesFromPairs

\* C1 as amended: the same, for a project that is not NULL; a pair whose
\* project is NULL has no spike record
C1_SpikeIffNotNull ==
    /\ \A a \in joinA : \A b \in joinB :
          SamePair(a, b) =>
              (SpikeRecords(a) # {} <=> (a.project # NULL /\ Burst(a, b)))
    /\ SpikesFromPairs

\* ten edits in ten minutes, five of them in the last minute: ratio 5.0
C1_Witness ==
    \E s \in DOMAIN gold_spikes :
        /\ s.edits_10m = 10
        /\ s.edits_1m = 5
        /\ RatioEquals(s.ratio, 5)
        /\ \E b \in joinB : b.project = s.project /\ SpikeRecords([w1 |-> b.w10, project |-> b.project]) = {}

PageGroups(w, t) ==
    {g \in DOMAIN gold_top_pages : g.window = w /\ g.page_title = t}

CrossRecords(w, t) ==
    {c \in DOMAIN gold_crosslang : c.window = w /\ c.page_title = t}

\* C2 as stated: a page title of a closed ten-minute window has a cross
\* record if and only if it has groups of at least 2 distinct projects; the
\* record's projects are those projects and its total_edits the sum of their
\* counts
C2_CrossIff ==
    \A g \in DOMAIN gold_top_pages :
        LET groups == PageGroups(g.window, g.page_title)
            projects == {h.project : h \in groups}
            records == CrossRecords(g.window, g.page_title)
        IN  /\ records # {} <=> Cardinality(projects) >= MinProjects
            /\ \A c \in records :
                  /\ c.projects = projects
                  /\ c.total_edits = SumEdits(groups)

\* C2 as amended: the projects that count are those that are not NULL; the
\* record is written once, its projects are the projects that are not NULL,
\* and its total_edits is the sum over all groups of the title in the window,
\* the group whose project is NULL included
C2_CrossIffNotNull ==
    \A g \in DOMAIN gold_top_pages :
        LET groups == PageGroups(g.window, g.page_title)
            projects == {h.project : h \in groups} \ {NULL}
            records == CrossRecords(g.window, g.page_title)
        IN  /\ records # {} <=> Cardinality(projects) >= MinProjects
            /\ Cardinality(records) <= 1
            /\ \A c \in records :
                  /\ gold_crosslang[c] = 1
                  /\ c.projects = projects
                  /\ c.total_edits = SumEdits(groups)

\* count 3 under "en" and 2 under "de": projects {en, de}, total 5
C2_Witness ==
    \E c \in DOMAIN gold_crosslang :
        /\ c.projects = {"en", "de"}
        /\ c.total_edits = 5
        /\ \E g \in PageGroups(c.window, c.page_title) : g.project = "en" /\ g.edits = 3
        /\ \E g \in PageGroups(c.window, c.page_title) : g.project = "de" /\ g.edits = 2

\* C3: a group of by_proj or pages that received a row has no record while
\* its window end is above the watermark of the last batch, and from then on
\* exactly one record, written once, and no accumulator any more; a record
\* is written only once the watermark has reached its window end
C3_ExactlyOnce ==
    /\ \A g \in received :
          LET view == g[1]
              k == g[2]
          IN  IF k[1] <= batchWatermark
              THEN /\ k \notin DOMAIN StoreOf(view)
                   /\ Cardinality(EmittedRows(view, k)) = 1
                   /\ \A r \in EmittedRows(view, k) : GoldOf(view)[r] = 1
              ELSE /\ k \in DOMAIN StoreOf(view)
                   /\ EmittedRows(view, k) = {}
    /\ \A view \in {"by_proj", "pages"} :
          \A r \in DOMAIN GoldOf(view) : r.window.end <= watermark

\* a group was emitted and a row for it arrived afterwards
C3_Witness ==
    \E g \in received \cap lateDropped :
        /\ g[1] = "by_proj"
        /\ EmittedRows(g[1], g[2]) # {}

C6_Watermark ==
    /\ [](SeenTimes # {} => watermark = SetMax(SeenTimes) - WatermarkDelay)
    /\ [][watermark' >= watermark]_vars

\* an older row was read after a newer one
C6_Witness ==
    /\ lateApplied # {}
    /\ watermark = SetMax(SeenTimes) - WatermarkDelay

\* C7: the record of a (window, project) of by_proj from which no row was
\* dropped as late has edits equal to the number of rows read with that
\* project and a timestamp in that window
C7_ExactCount ==
    \A r \in DOMAIN gold_by_project :
        <<"by_proj", RowKey("by_proj", r)>> \notin lateDropped =>
            r.edits = BagSum(bronzeRead,
                             {o \in ReadInWindow(r.window) : Src(o).project = r.project})

C7_Witness ==
    \E r \in DOMAIN gold_by_project :
        /\ <<"by_proj", RowKey("by_proj", r)>> \notin lateDropped
        /\ r.edits >= 2

Read == {o \in DOMAIN bronzeRead : bronzeRead[o] > 0}

\* C8 as stated: every record that contributes to an aggregate has a
\* namespace field equal to 0, a parsed timestamp, a source key and a title.
C8_RejectRules ==
    \A o \in contributed :
        /\ o.namespace = 0
        /\ ToTimestamp(o.dt) # NullTs
        /\ Coalesce(o.server_name, o.wiki) # NULL
        /\ o.title # NULL

\* C8 as amended: a record contributes only if its type is edit or new, its
\* namespace is 0 or absent and its timestamp parses; nothing else rejects
\* it: a record read with a timestamp the watermark has not passed
\* contributes, whether or not it has a namespace, a source key or a title.
C8_RejectRulesOfCode ==
    /\ \A o \in contributed :
           /\ o.type \in {"edit", "new"}
           /\ o.namespace \in {0, NoNamespace}
           /\ ToTimestamp(o.dt) # NullTs
    /\ \A o \in Read :
           ToTimestamp(o.dt) # NullTs /\ watermark <= ToTimestamp(o.dt)
               => o \in contributed

C8_Witness ==
    /\ \E o \in contributed : o.namespace = NoNamespace
    /\ \E o \in contributed : Coalesce(o.server_name, o.wiki) = NULL
    /\ \E o \in Read : ToTimestamp(o.dt) = NullTs /\ o \notin contributed

InBuffer(id) == \E i \in DOMAIN buf : buf[i].id = id

InFiles(id) == \E p \in DOMAIN files : \E i \in DOMAIN files[p] : files[p][i].id = id

\* C9: an event that was appended to the buffer is in the buffer still or in
\* a batch file under OUT_DIR, whatever errors, reconnects and interrupts
\* happened since.
C9_AtLeastOnce == \A id \in appended : InBuffer(id) \/ InFiles(id)

\* C11: a micro-batch the checkpoint holds as complete has its records in
\* the files under the sink's path exactly once, whatever retries and
\* restarts happened: no window is there twice and none is missing.
C11_IdempotentCommit ==
    \A b \in commitLog :
        Cardinality({f \in Complete(outDir) : outDir[f].batch = b}) = 1

\* the rows of the files fs, each file once
RECURSIVE RowsOfFiles(_)
RowsOfFiles(fs) ==
    IF fs = {} THEN EmptyFrame
    ELSE LET f == CHOOSE f \in fs : TRUE
         IN  AppendRows(RowsOfFiles(fs \ {f}), outDir[f].rows)

\* C12: read_parquet_dir does not raise; with no parquet file it returns the
\* empty frame; otherwise it returns the rows of complete files only, each
\* file once, and of every file that was complete when it listed the
\* directory.
C12_ReadParquetDir ==
    /\ dpc \in {"idle", "fast", "perfile", "returned"}
    /\ dpc = "returned" =>
          /\ listed = {} => frame = EmptyFrame
          /\ \E fs \in SUBSET Complete(outDir) :
                /\ readableAtGlob \subseteq fs
                /\ frame = RowsOfFiles(fs)

\* a call returned the rows of a complete file while another file it had
\* listed was still being written
C12_Witness ==
    /\ dpc = "returned"
    /\ frame # EmptyFrame
    /\ readableAtGlob # {}
    /\ \E f \in listed : f \in DOMAIN outDir /\ ~outDir[f].complete

\* the except branches of main that sleep and reconnect
Excepts == {"429", "http", "network", "exception"}

\* C13: after a 429 response no event of it is read; a Retry-After given in
\* seconds was waited for; and main backs off exponentially only if the
\* response had no Retry-After.
C13_RetryAfterHonored ==
    lastResp.status = 429 =>
        /\ ipc # "stream"
        /\ lastResp.retry_after >= 0 => waited = lastResp.retry_after
        /\ branch \in Excepts => lastResp.retry_after = NoRetryAfter

\* C14: no step changes or removes a batch file that was written before.
C14_NoOverwrite ==
    [][\A p \in DOMAIN files : p \in DOMAIN files' /\ files'[p] = files[p]]_vars

\* C15: a step into an except branch of main sleeps and goes back to
\* connect; its backoff is between min(120, 2^attempt) and one second more,
\* unless the 429 branch took a larger Retry-After; main exits only on
\* KeyboardInterrupt.
C15_Backoff ==
    /\ [][branch' \in Excepts =>
             /\ ipc' = "connect"
             /\ clock' > clock
             /\ \/ /\ backoff' >= 10 * Min(MAX_BACKOFF, 2 ^ attempt')
                   /\ backoff' <= 10 * Min(MAX_BACKOFF, 2 ^ attempt') + 10
                   /\ backoff' <= 10 * (MAX_BACKOFF + 1)
                \/ /\ branch' = "429"
                   /\ lastResp'.retry_after > MAX_BACKOFF
                   /\ backoff' = 10 * lastResp'.retry_after]_vars
    /\ [](ipc = "exit" => branch = "interrupt")

\* the backoff has reached its cap
C15_Witness ==
    /\ branch \in Excepts
    /\ 2 ^ attempt > MAX_BACKOFF
    /\ backoff >= 10 * MAX_BACKOFF
    /\ ipc = "connect"

\* C16: a step into an except branch adds exactly 1 to attempt, whatever the
\* connection streamed or wrote; a normal return of connect_and_stream sets
\* it to 0; no other step changes it.
C16_Attempt ==
    [][/\ branch' \in Excepts => attempt' = attempt + 1
       /\ branch' = "returned" => attempt' = 0
       /\ branch' \notin Excepts \cup {"returned"} => attempt' = attempt]_vars

\* a connection that had streamed events and written a batch failed, after
\* an earlier failure, and attempt counts both
C16_Witness ==
    /\ attempt = 2
    /\ branch \in Excepts
    /\ lastResp.status = 200
    /\ DOMAIN files # {}
    /\ appended # {}

\* C10: every record of every view counts at least one edit, and a record of
\* the sliding view pages exists only for a window that contains the
\* timestamp of a row read with its project and page title
C10_SparseEmission ==
    /\ \A r \in DOMAIN gold_top_pages :
          /\ r.edits >= 1
          /\ \E o \in ReadInWindow(r.window) :
                /\ Src(o).project = r.project
                /\ Src(o).page_title = r.page_title
    /\ \A r \in DOMAIN gold_by_project :
          /\ r.edits >= 1
          /\ \E o \in ReadInWindow(r.window) : Src(o).project = r.project
    /\ \A r \in DOMAIN gold_spikes : r.edits_1m >= 1 /\ r.edits_10m >= 1
    /\ \A r \in DOMAIN gold_crosslang : r.total_edits >= 1

\* the windows of a page up to minute 39 were emitted, and the closed window
\* ending at minute 40, in which the page has no edit, has no record
C10_Witness ==
    /\ batchWatermark >= 40
    /\ \E r \in DOMAIN gold_top_pages :
          /\ r.window.end = 39
          /\ \A q \in DOMAIN gold_top_pages :
                (q.project = r.project /\ q.page_title = r.page_title) => q.window.end # 40

\* C5: a timestamp t under a window specification whose size is a multiple
\* of its slide is assigned exactly size / slide windows, each starting at a
\* multiple of the slide and containing t: one window for a tumbling view,
\* ten for a view whose size is ten slides, and every window ends on a
\* multiple of the slide, where the tumbling windows of that slide end
C5_WindowsFor ==
    win.assigned =>
        /\ Cardinality(win.windows) = win.size \div win.slide
        /\ \A w \in win.windows :
              /\ w.start % win.slide = 0
              /\ w.end = w.start + win.size
              /\ w.start <= win.t
              /\ win.t < w.end
              /\ w.end % win.slide = 0
        /\ win.size = win.slide =>
              win.windows = {[start |-> win.t - (win.t % win.slide),
                              end |-> win.t - (win.t % win.slide) + win.slide]}
        /\ win.size = SlidingSize * win.slide =>
              Cardinality(win.windows) = SlidingSize

\* a timestamp inside a minute, under the ten-minute view sliding by a minute
\* counted in half minutes
C5_Witness ==
    /\ win.assigned
    /\ win.slide = 2
    /\ win.size = 20
    /\ win.t = 23
    /\ Cardinality(win.windows) = 10

====
